---- MODULE Spec2Model ----
(***************************************************************************)
(* NativeDateHelper.js: the class NativeDate, a wrapper around one native  *)
(* Date object (generatedDate), the string it was built from (dateString)  *)
(* and the flag isHealed.                                                  *)
(*                                                                         *)
(* The native Date is modelled after ECMA-262 (Date objects): a time value *)
(* is NaN or a number of milliseconds since the epoch, kept here as a day  *)
(* number and the milliseconds within that day; the getters and setters    *)
(* work in local time, a date-only ISO string is parsed as UTC midnight.   *)
(* Strings are sequences of one-character strings.  A JS number is NaN or  *)
(* an integer.  Date objects live in a heap and are held by reference, so  *)
(* that a setter's in-place effect is seen through every alias.            *)
(***************************************************************************)
EXTENDS Integers, Sequences, FiniteSets, TLC

VARIABLES
  tzOffset,       \* host: what getTimezoneOffset() returns, minutes (UTC - local)
  engine,         \* host: "strict" or "lenient" Date.parse
  now,            \* host: the time value new Date() yields
  heap,           \* the Date objects allocated so far: sequence of time values
  phase,          \* "new" (not constructed), "ready", "threw" (constructor threw)
  generatedDate,  \* this.generatedDate: a reference into heap (0: none)
  dateString,     \* this.dateString
  isHealed,       \* this.isHealed
  handles,        \* references the caller holds: passed in, read through date, returned
  other,          \* a second instance (construct only): [made, generatedDate, dateString, isHealed]
  warned,         \* whether the constructor wrote its console warning
  last,           \* the last call: [op, n, arg], arg a constructor's argument
  nOps            \* arithmetic calls made so far

vars == <<tzOffset, engine, now, heap, phase, generatedDate, dateString,
          isHealed, handles, other, warned, last, nOps>>

(***************************************************************************)
(* JS numbers (integers and NaN) and strings                               *)
(***************************************************************************)
NaN == [nan |-> TRUE, v |-> 0]
Num(i) == [nan |-> FALSE, v |-> i]

\* a + b, a - b
Plus(a, b) == IF a.nan \/ b.nan THEN NaN ELSE Num(a.v + b.v)
Minus(a, b) == IF a.nan \/ b.nan THEN NaN ELSE Num(a.v - b.v)
\* a === b, a > b, a < b, a >= b, a <= b: every comparison with NaN is false
StrictEq(a, b) == ~a.nan /\ ~b.nan /\ a.v = b.v
Gt(a, b) == ~a.nan /\ ~b.nan /\ a.v > b.v
Lt(a, b) == ~a.nan /\ ~b.nan /\ a.v < b.v
Ge(a, b) == ~a.nan /\ ~b.nan /\ a.v >= b.v
Le(a, b) == ~a.nan /\ ~b.nan /\ a.v <= b.v

Digits == <<"0", "1", "2", "3", "4", "5", "6", "7", "8", "9">>
DigitSet == {Digits[i] : i \in 1..10}
DigitValue == [c \in DigitSet |-> CHOOSE i \in 0..9 : Digits[i + 1] = c]
DigitVal(c) == DigitValue[c]

RECURSIVE NatStr(_)
NatStr(n) == IF n < 10 THEN <<Digits[n + 1]>>
             ELSE NatStr(n \div 10) \o <<Digits[(n % 10) + 1]>>

\* `${x}` of a number
NumStr(x) == IF x.nan THEN <<"N", "a", "N">>
             ELSE IF x.v < 0 THEN <<"-">> \o NatStr(-x.v)
             ELSE NatStr(x.v)

IsDigits(s) == Len(s) > 0 /\ \A i \in 1..Len(s) : s[i] \in DigitSet

RECURSIVE StrNat(_)
StrNat(s) == IF Len(s) = 0 THEN 0
             ELSE 10 * StrNat(SubSeq(s, 1, Len(s) - 1)) + DigitVal(s[Len(s)])

\* s.split("-")
RECURSIVE Split(_)
Split(s) ==
  IF \A i \in 1..Len(s) : s[i] # "-" THEN <<s>>
  ELSE LET k == CHOOSE i \in 1..Len(s) : s[i] = "-" /\ \A j \in 1..(i - 1) : s[j] # "-"
       IN <<SubSeq(s, 1, k - 1)>> \o Split(SubSeq(s, k + 1, Len(s)))

\* items.join("-")
RECURSIVE Join(_)
Join(items) == IF Len(items) = 0 THEN <<>>
               ELSE IF Len(items) = 1 THEN items[1]
               ELSE items[1] \o <<"-">> \o Join(Tail(items))

(***************************************************************************)
(* The native Date (ECMA-262): time values and the calendar                *)
(***************************************************************************)
MsPerDay == 86400000
MsPerMinute == 60000
MaxTimeDays == 100000000

NaT == [nan |-> TRUE, day |-> 0, ms |-> 0]
\* day d (since the epoch) and m milliseconds, m any integer
MkTime(d, m) == [nan |-> FALSE, day |-> d + (m \div MsPerDay), ms |-> m % MsPerDay]

\* TimeClip: beyond 8.64e15 ms the time value is NaN
TimeClip(t) ==
  IF t.nan THEN NaT
  ELSE IF t.day > MaxTimeDays \/ t.day < -MaxTimeDays
          \/ (t.day = MaxTimeDays /\ t.ms > 0) THEN NaT
  ELSE t

\* LocalTime(t) = t + LocalTZA, UTC(t) = t - LocalTZA, LocalTZA = -offset minutes
LocalTime(t, off) == MkTime(t.day, t.ms - off * MsPerMinute)
UTCTime(t, off) == MkTime(t.day, t.ms + off * MsPerMinute)

InLeapYear(y) == (y % 4 = 0 /\ y % 100 # 0) \/ y % 400 = 0

DayFromYear(y) == 365 * (y - 1970) + ((y - 1969) \div 4) - ((y - 1901) \div 100)
                  + ((y - 1601) \div 400)

\* The civil date of a day number: [y, m (0-based), d (1-based)], the values of
\* YearFromTime, MonthFromTime and DateFromTime.  Years are counted from
\* 1 March in 400-year eras of 146097 days.
Civil(d) ==
  LET z == d + 719468
      era == z \div 146097
      doe == z - era * 146097
      yoe == (doe - (doe \div 1460) + (doe \div 36524) - (doe \div 146096)) \div 365
      doy == doe - (365 * yoe + (yoe \div 4) - (yoe \div 100))
      mp == (5 * doy + 2) \div 153
      m == IF mp < 10 THEN mp + 2 ELSE mp - 10
  IN [y |-> yoe + era * 400 + (IF m <= 1 THEN 1 ELSE 0),
      m |-> m,
      d |-> doy - ((153 * mp + 2) \div 5) + 1]

YearFromDay(d) == Civil(d).y
MonthFromDay(d) == Civil(d).m
DateFromDay(d) == Civil(d).d

\* days before month m (0-based) in a year
CumTable == <<0, 31, 59, 90, 120, 151, 181, 212, 243, 273, 304, 334, 365>>
CumDays(m, leap) == CumTable[m + 1] + (IF leap /\ m >= 2 THEN 1 ELSE 0)

\* MakeDay(year, month, date): month 0-based and of any size, date of any size
MakeDay(y, m, dt) ==
  LET ym == y + (m \div 12)
      mn == m % 12
  IN DayFromYear(ym) + CumDays(mn, InLeapYear(ym)) + dt - 1

DaysInMonthOf(y, m) == CumDays(m, InLeapYear(y)) - CumDays(m - 1, InLeapYear(y))

\* getFullYear(), getMonth(), getDate() of a Date whose time value is t
getFullYear(t) == IF t.nan THEN NaN ELSE Num(YearFromDay(LocalTime(t, tzOffset).day))
getMonth(t) == IF t.nan THEN NaN ELSE Num(MonthFromDay(LocalTime(t, tzOffset).day))
getDate(t) == IF t.nan THEN NaN ELSE Num(DateFromDay(LocalTime(t, tzOffset).day))

\* setFullYear(y): a NaN time value counts as +0; the other fields are kept
setFullYear(t, y) ==
  IF y.nan THEN NaT
  ELSE LET lt == IF t.nan THEN MkTime(0, 0) ELSE LocalTime(t, tzOffset)
           dy == MakeDay(y.v, MonthFromDay(lt.day), DateFromDay(lt.day))
       IN TimeClip(UTCTime(MkTime(dy, lt.ms), tzOffset))

\* setMonth(m), m 0-based
setMonth(t, m) ==
  IF t.nan \/ m.nan THEN NaT
  ELSE LET lt == LocalTime(t, tzOffset)
           dy == MakeDay(YearFromDay(lt.day), m.v, DateFromDay(lt.day))
       IN TimeClip(UTCTime(MkTime(dy, lt.ms), tzOffset))

\* setDate(dt)
setDate(t, dt) ==
  IF t.nan \/ dt.nan THEN NaT
  ELSE LET lt == LocalTime(t, tzOffset)
           dy == MakeDay(YearFromDay(lt.day), MonthFromDay(lt.day), dt.v)
       IN TimeClip(UTCTime(MkTime(dy, lt.ms), tzOffset))

\* The date-only form of the Date Time String Format: YYYY-MM-DD
IsDateOnlyForm(s) ==
  /\ Len(s) = 10
  /\ s[5] = "-" /\ s[8] = "-"
  /\ \A i \in {1, 2, 3, 4, 6, 7, 9, 10} : s[i] \in DigitSet

\* What an engine's fallback makes of a string that is not in the format.
\* ECMA-262 leaves it to the implementation: the strict engine answers NaN, the
\* lenient one reads year-month-day (year of three or more digits first) as
\* local midnight, and a string without numbers as NaN.
LegacyParse(s) ==
  LET p == Split(s)
  IN IF Len(p) = 3 /\ \A i \in 1..3 : IsDigits(p[i]) /\ Len(p[i]) <= 6
     THEN LET y == StrNat(p[1])
              m == StrNat(p[2])
              d == StrNat(p[3])
          IN IF y >= 100 /\ m \in 1..12 /\ d \in 1..31
             THEN TimeClip(UTCTime(MkTime(MakeDay(y, m - 1, d), 0), tzOffset))
             ELSE NaT
     ELSE NaT

\* new Date(string): a date-only string is UTC midnight; a day past the end of
\* its month is an illegal element value (NaN) that the lenient engine carries
\* into the next month; anything else goes to the engine's fallback.
DateParse(s) ==
  IF IsDateOnlyForm(s)
  THEN LET y == StrNat(SubSeq(s, 1, 4))
           m == StrNat(SubSeq(s, 6, 7))
           d == StrNat(SubSeq(s, 9, 10))
       IN IF m \in 1..12 /\ d \in 1..31
          THEN IF d <= DaysInMonthOf(y, m) \/ engine = "lenient"
               THEN MkTime(MakeDay(y, m - 1, d), 0)
               ELSE NaT
          ELSE NaT
  ELSE IF engine = "lenient" THEN LegacyParse(s) ELSE NaT

(***************************************************************************)
(* class NativeDate: getters and helpers                                   *)
(***************************************************************************)
\* get year / month / day of an instance whose generatedDate has time value t
year(t) == getFullYear(t)
month(t) == Plus(getMonth(t), Num(1))
day(t) == getDate(t)

addLeadingZeros(ds) ==
  IF Len(ds) = 10 THEN ds
  ELSE LET items == Split(ds)
       IN Join([i \in 1..Len(items) |->
                  IF Len(items[i]) = 1 THEN <<"0">> \o items[i] ELSE items[i]])

\* `${y}-${m}-${d}`
Template(y, m, d) == NumStr(y) \o <<"-">> \o NumStr(m) \o <<"-">> \o NumStr(d)

toIso(y, m, d) == addLeadingZeros(Template(y, m, d))

isoString(t) == toIso(year(t), month(t), day(t))

isLeapYear(y) ==
  /\ ~y.nan
  /\ (y.v % 4 = 0 /\ y.v % 100 # 0) \/ y.v % 400 = 0

daysInMonth(m, y) ==
  IF StrictEq(m, Num(2)) THEN (IF isLeapYear(y) THEN Num(29) ELSE Num(28))
  ELSE IF \E k \in {9, 4, 6, 11} : StrictEq(m, Num(k)) THEN Num(30)
  ELSE Num(31)

isValidDateString(t, ds) == toIso(year(t), month(t), day(t)) = ds

\* generatedDate is always a Date object here: it exists and its typeof is "object"
isValidDate(t) ==
  LET exists == TRUE
      typeofObject == TRUE
  IN IF ~exists \/ (exists /\ ~typeofObject /\ t.nan) THEN FALSE
     ELSE /\ Ge(month(t), Num(1))
          /\ Le(month(t), Num(12))
          /\ Gt(day(t), Num(0))
          /\ Le(day(t), daysInMonth(month(t), year(t)))

\* a.isEqual(b), a.isBefore(b), a.isAfter(b); a and b the two time values
isEqual(a, b) ==
  StrictEq(year(a), year(b)) /\ StrictEq(month(a), month(b)) /\ StrictEq(day(a), day(b))

\* isBefore with the year forgotten in the month comparison
isBeforeMonthAlone(a, b) ==
  IF Gt(year(a), year(b)) THEN TRUE
  ELSE IF Gt(month(a), month(b)) THEN TRUE
  ELSE StrictEq(year(a), year(b)) /\ StrictEq(month(a), month(b)) /\ Gt(day(a), day(b))

isBefore(a, b) ==
  IF Gt(year(a), year(b)) THEN TRUE
  ELSE IF StrictEq(year(a), year(b)) /\ Gt(month(a), month(b)) THEN TRUE
  ELSE StrictEq(year(a), year(b)) /\ StrictEq(month(a), month(b)) /\ Gt(day(a), day(b))

isAfter(a, b) ==
  IF Lt(year(a), year(b)) THEN TRUE
  ELSE IF StrictEq(year(a), year(b)) /\ Lt(month(a), month(b)) THEN TRUE
  ELSE StrictEq(year(a), year(b)) /\ StrictEq(month(a), month(b)) /\ Lt(day(a), day(b))

\* isDate(x): "true", "false", or "throws" (x.getFullYear is read off null, or
\* called on an object that has no such method: a TypeError)
isDate(x) ==
  IF x.type \notin {"null", "object", "date"} THEN "false"
  ELSE IF x.type = "date" THEN "true"
  ELSE "throws"

\* ^([12]\d{3}-(0?[1-9]|1[0-2])-(0?[1-9]|[12]\d|3[01]))$
MatchMonth(s) ==
  \/ Len(s) = 1 /\ s[1] \in DigitSet \ {"0"}
  \/ Len(s) = 2 /\ s[1] = "0" /\ s[2] \in DigitSet \ {"0"}
  \/ Len(s) = 2 /\ s[1] = "1" /\ s[2] \in {"0", "1", "2"}
MatchDay(s) ==
  \/ Len(s) = 1 /\ s[1] \in DigitSet \ {"0"}
  \/ Len(s) = 2 /\ s[1] = "0" /\ s[2] \in DigitSet \ {"0"}
  \/ Len(s) = 2 /\ s[1] \in {"1", "2"} /\ s[2] \in DigitSet
  \/ Len(s) = 2 /\ s[1] = "3" /\ s[2] \in {"0", "1"}
MatchRegex(s) ==
  /\ Len(s) >= 8
  /\ s[1] \in {"1", "2"}
  /\ \A i \in 2..4 : s[i] \in DigitSet
  /\ s[5] = "-"
  /\ \E k \in 7..(Len(s) - 1) :
       /\ s[k] = "-"
       /\ MatchMonth(SubSeq(s, 6, k - 1))
       /\ MatchDay(SubSeq(s, k + 1, Len(s)))

isIso(x) ==
  IF x.type # "string" \/ x.str = <<>> THEN FALSE
  ELSE MatchRegex(x.str)

(***************************************************************************)
(* Bounds and the values the caller and the host are drawn from            *)
(***************************************************************************)
\* arithmetic calls on one instance
MaxOps == 2
\* arithmetic calls before the instance is compared with a second one
MaxCmpOps == 1

Deltas == {-13, 0, 1}
\* getTimezoneOffset() of the hosts: UTC-5, UTC and UTC+2
TzOffsets == <<300, 0, -120>>
Engines == {"strict", "lenient"}
Hour == 60 * MsPerMinute
\* 2026-11-04T10:00Z
Nows == {MkTime(MakeDay(2026, 10, 4), 10 * Hour)}

Chars(y, m, d) == y \o <<"-">> \o m \o <<"-">> \o d
Y2024 == <<"2", "0", "2", "4">>

Undefined == [type |-> "undefined", str |-> <<>>, tv |-> NaT]
Null == [type |-> "null", str |-> <<>>, tv |-> NaT]
Number == [type |-> "number", str |-> <<>>, tv |-> NaT]
PlainObject == [type |-> "object", str |-> <<>>, tv |-> NaT]
Str(s) == [type |-> "string", str |-> s, tv |-> NaT]
DateObj(t) == [type |-> "date", str |-> <<>>, tv |-> t]

IsoStrings ==
  { Chars(Y2024, <<"0", "3">>, <<"0", "1">>),
    Chars(Y2024, <<"3">>, <<"1">>),
    Chars(Y2024, <<"1">>, <<"1", "5">>),
    Chars(Y2024, <<"0", "2">>, <<"3", "0">>),
    Chars(<<"2", "0", "2", "3">>, <<"1", "2">>, <<"3", "1">>),
    Chars(<<"1", "0", "0", "0">>, <<"1">>, <<"0", "1">>),
    Chars(<<"2", "9", "9", "9">>, <<"1", "2">>, <<"3", "1">>) }

OtherStrings ==
  { <<>>,
    <<"y", "o", "l", "o">>,
    <<"1", "0", ".", "1", "2", ".", "2", "0", "1", "8">>,
    Chars(Y2024, <<"1", "3">>, <<"0", "1">>),
    Chars(<<"3", "0", "0", "0">>, <<"0", "1">>, <<"0", "1">>) }

\* native Date objects a caller may pass: mid-day and late-evening instants, years
\* of three, four and five digits, and an invalid Date
DateValues ==
  { MkTime(MakeDay(2024, 0, 15), 12 * Hour),
    MkTime(MakeDay(2024, 2, 1), 23 * Hour + 30 * MsPerMinute),
    MkTime(MakeDay(999, 5, 15), 12 * Hour),
    MkTime(MakeDay(9999, 11, 31), 12 * Hour),
    MkTime(MakeDay(10000, 0, 15), 12 * Hour),
    NaT }

Inputs ==
  {Undefined, Null, Number, PlainObject}
  \cup {Str(s) : s \in IsoStrings \cup OtherStrings}
  \cup {DateObj(t) : t \in DateValues}

\* what a second instance is built from
OtherInputs ==
  { Undefined,
    Str(Chars(Y2024, <<"0", "3">>, <<"0", "1">>)),
    Str(Chars(<<"2", "0", "2", "3">>, <<"1", "2">>, <<"3", "1">>)),
    DateObj(MkTime(MakeDay(2024, 0, 15), 3 * Hour)),
    DateObj(MkTime(MakeDay(2024, 2, 1), 23 * Hour + 30 * MsPerMinute)),
    DateObj(NaT) }

(***************************************************************************)
(* The constructor                                                         *)
(***************************************************************************)
\* What new NativeDate(x) does: it throws, or leaves an instance whose
\* generatedDate is the caller's object (adopt) or a new Date with time value tv
Ctor(x) ==
  IF isDate(x) = "throws"
  THEN [threw |-> TRUE, adopt |-> FALSE, tv |-> NaT, ds |-> <<>>, healed |-> FALSE]
  ELSE IF isDate(x) = "true"
  THEN [threw |-> FALSE, adopt |-> TRUE, tv |-> x.tv, ds |-> isoString(x.tv),
        healed |-> FALSE]
  ELSE IF isIso(x)
  THEN LET isoDateString == addLeadingZeros(x.str)
       IN [threw |-> FALSE, adopt |-> FALSE, tv |-> DateParse(isoDateString),
           ds |-> isoDateString, healed |-> FALSE]
  ELSE [threw |-> FALSE, adopt |-> FALSE, tv |-> now, ds |-> <<>>, healed |-> TRUE]

NoOther == [made |-> FALSE, threw |-> FALSE, generatedDate |-> 0, dateString |-> <<>>,
            isHealed |-> FALSE]

Init ==
  /\ \E i \in 1..Len(TzOffsets) : tzOffset = TzOffsets[i]
  /\ engine \in Engines
  /\ now \in Nows
  /\ heap = <<>>
  /\ phase = "new"
  /\ generatedDate = 0
  /\ dateString = <<>>
  /\ isHealed = FALSE
  /\ handles = {}
  /\ other = NoOther
  /\ warned = FALSE
  /\ last = [op |-> "none", n |-> 0, arg |-> Undefined]
  /\ nOps = 0

host == <<tzOffset, engine, now>>

\* new NativeDate(x)
Construct(x) ==
  /\ phase = "new"
  /\ last' = [op |-> "new", n |-> 0, arg |-> x]
  /\ LET r == Ctor(x)
     IN IF r.threw
        THEN /\ phase' = "threw"
             /\ UNCHANGED <<heap, generatedDate, dateString, isHealed, handles, warned>>
        ELSE /\ phase' = "ready"
             /\ heap' = Append(heap, r.tv)
             /\ generatedDate' = Len(heap) + 1
             /\ dateString' = r.ds
             /\ isHealed' = r.healed
             /\ handles' = IF r.adopt THEN handles \cup {Len(heap) + 1} ELSE handles
             /\ warned' = r.tv.nan
  /\ UNCHANGED <<host, other, nOps>>

\* the caller reads the date accessor and keeps what it returns
GetDate ==
  /\ phase = "ready"
  /\ generatedDate \notin handles
  /\ handles' = handles \cup {generatedDate}
  /\ last' = [op |-> "date", n |-> 0, arg |-> Undefined]
  /\ UNCHANGED <<host, heap, phase, generatedDate, dateString, isHealed, other,
                 warned, nOps>>

\* updateGeneratedDate healing an unparsable string with the current instant, as
\* the constructor does
updateGeneratedDateHealing(op, n, t) ==
  LET newDateString == Template(year(t), month(t), day(t))
      isoDateString == addLeadingZeros(newDateString)
      parsed == DateParse(isoDateString)
  IN /\ dateString' = isoDateString
     /\ heap' = Append([heap EXCEPT ![generatedDate] = t],
                       IF parsed.nan THEN now ELSE parsed)
     /\ generatedDate' = Len(heap) + 1
     /\ handles' = handles \cup {Len(heap) + 1}
     /\ last' = [op |-> op, n |-> n, arg |-> Undefined]
     /\ nOps' = nOps + 1
     /\ UNCHANGED <<host, phase, isHealed, other, warned>>

\* A setter has changed generatedDate's object in place to time value t; then
\* updateGeneratedDate() rebuilds dateString and generatedDate from it and
\* returns the new Date, which the caller receives
updateGeneratedDate(op, n, t) ==
  LET newDateString == Template(year(t), month(t), day(t))
      isoDateString == addLeadingZeros(newDateString)
  IN /\ dateString' = isoDateString
     /\ heap' = Append([heap EXCEPT ![generatedDate] = t], DateParse(isoDateString))
     /\ generatedDate' = Len(heap) + 1
     /\ handles' = handles \cup {Len(heap) + 1}
     /\ last' = [op |-> op, n |-> n, arg |-> Undefined]
     /\ nOps' = nOps + 1
     /\ UNCHANGED <<host, phase, isHealed, other, warned>>

this == heap[generatedDate]

addYear(n, lim) ==
  /\ phase = "ready" /\ nOps < lim
  /\ updateGeneratedDate("addYear", n, setFullYear(this, Plus(year(this), Num(n))))

addMonth(n, lim) ==
  /\ phase = "ready" /\ nOps < lim
  /\ updateGeneratedDate("addMonth", n, setMonth(this, Plus(month(this), Num(n))))

addDay(n, lim) ==
  /\ phase = "ready" /\ nOps < lim
  /\ updateGeneratedDate("addDay", n, setDate(this, Plus(day(this), Num(n))))

subtractYear(n, lim) ==
  /\ phase = "ready" /\ nOps < lim
  /\ updateGeneratedDate("subtractYear", n, setFullYear(this, Minus(year(this), Num(n))))

subtractMonth(n, lim) ==
  /\ phase = "ready" /\ nOps < lim
  /\ updateGeneratedDate("subtractMonth", n, setMonth(this, Minus(month(this), Num(n))))

subtractDay(n, lim) ==
  /\ phase = "ready" /\ nOps < lim
  /\ updateGeneratedDate("subtractDay", n, setDate(this, Minus(day(this), Num(n))))

\* a second instance: new NativeDate(x)
MakeOther(x, op) ==
  /\ phase = "ready"
  /\ ~other.made
  /\ last' = [op |-> op, n |-> 0, arg |-> x]
  /\ LET r == Ctor(x)
     IN IF r.threw
        THEN /\ other' = [NoOther EXCEPT !.made = TRUE, !.threw = TRUE]
             /\ UNCHANGED <<heap, handles>>
        ELSE /\ other' = [made |-> TRUE, threw |-> FALSE, generatedDate |-> Len(heap) + 1,
                          dateString |-> r.ds, isHealed |-> r.healed]
             /\ heap' = Append(heap, r.tv)
             /\ handles' = IF r.adopt THEN handles \cup {Len(heap) + 1} ELSE handles
  /\ UNCHANGED <<host, phase, generatedDate, dateString, isHealed, warned, nOps>>

ConstructOther(x) == MakeOther(x, "newOther")

\* nativeDateHelper(d.isoString), d the first instance
RoundTrip == MakeOther(Str(isoString(this)), "roundTrip")

Next ==
  \/ \E x \in Inputs : Construct(x)
  \/ GetDate
  \/ \E n \in Deltas : addYear(n, MaxOps)
  \/ \E n \in Deltas : addMonth(n, MaxOps)
  \/ \E n \in Deltas : addDay(n, MaxOps)
  \/ \E n \in Deltas : subtractYear(n, MaxOps)
  \/ \E n \in Deltas : subtractMonth(n, MaxOps)
  \/ \E n \in Deltas : subtractDay(n, MaxOps)

Spec == Init /\ [][Next]_vars

\* two instances: the first built and moved, then a second one built beside it
NextCmp ==
  \/ \E x \in Inputs : Construct(x)
  \/ \E n \in Deltas : ~other.made /\ addYear(n, MaxCmpOps)
  \/ \E n \in Deltas : ~other.made /\ addMonth(n, MaxCmpOps)
  \/ \E n \in Deltas : ~other.made /\ addDay(n, MaxCmpOps)
  \/ \E n \in Deltas : ~other.made /\ subtractYear(n, MaxCmpOps)
  \/ \E n \in Deltas : ~other.made /\ subtractMonth(n, MaxCmpOps)
  \/ \E n \in Deltas : ~other.made /\ subtractDay(n, MaxCmpOps)
  \/ \E x \in OtherInputs : ConstructOther(x)
  \/ RoundTrip

SpecCmp == Init /\ [][NextCmp]_vars

(***************************************************************************)
(* Properties                                                              *)
(***************************************************************************)
thisNext == heap'[generatedDate']
otherDate == heap[other.generatedDate]

\* n written with at least w digits
RECURSIVE ZeroPad(_, _)
ZeroPad(n, w) == IF Len(NatStr(n)) >= w THEN NatStr(n)
                 ELSE <<"0">> \o ZeroPad(n, w - 1)

\* the canonical form YYYY-MM-DD of a string of the ISO calendar-date grammar
Canonical(s) ==
  LET p == Split(s)
  IN ZeroPad(StrNat(p[1]), 4) \o <<"-">> \o ZeroPad(StrNat(p[2]), 2)
     \o <<"-">> \o ZeroPad(StrNat(p[3]), 2)

\* the Gregorian day number of the calendar date an instance shows
ShownDay(t) == MakeDay(year(t).v, month(t).v - 1, day(t).v)
\* months since year 0 of the calendar month an instance shows
ShownMonth(t) == 12 * year(t).v + month(t).v - 1
Ymd(t) == <<year(t).v, month(t).v, day(t).v>>

LexGreater(p, q) == \E i \in 1..3 : p[i] > q[i] /\ \A j \in 1..(i - 1) : p[j] = q[j]
LexSmaller(p, q) == LexGreater(q, p)

\* C1: construction never throws; an input that is neither date-like nor a string
\* of the ISO grammar leaves a healed instance: isHealed, an empty dateString and
\* the current instant as its timestamp.
C1_HealsWithoutThrowing ==
  (last.op = "new" /\ last.arg.type # "date" /\ ~isIso(last.arg))
    => (phase = "ready" /\ isHealed /\ dateString = <<>> /\ this = now)

\* C2: on every host, the isoString of an instance built from a string of the ISO
\* grammar is the zero-padded canonical form of that string.
C2_IsoStringIsCanonical ==
  (last.op = "new" /\ isIso(last.arg))
    => (phase = "ready" /\ isoString(this) = Canonical(last.arg.str))

\* C3: on a valid date whose day is at most 28, addMonth(n) keeps the day and
\* lands exactly n months later, subtractMonth(n) exactly n months earlier.
C3_AddMonthMovesNMonths ==
  [][(last'.op \in {"addMonth", "subtractMonth"} /\ isValidDate(this)
        /\ Le(day(this), Num(28)))
      => /\ isValidDate(thisNext)
         /\ day(thisNext) = day(this)
         /\ ShownMonth(thisNext) = ShownMonth(this)
              + (IF last'.op = "addMonth" THEN last'.n ELSE -last'.n)]_vars

\* C4: on every host, addDay(n) on an instance built from a valid ISO string
\* shows the Gregorian date n days after the one it showed before the call, and
\* subtractDay(n) the one n days before.
C4_AddDayMovesNDays ==
  [][(last'.op \in {"addDay", "subtractDay"} /\ last.op = "new" /\ isIso(last.arg)
        /\ isValidDate(this))
      => /\ isValidDate(thisNext)
         /\ ShownDay(thisNext) = ShownDay(this)
              + (IF last'.op = "addDay" THEN last'.n ELSE -last'.n)]_vars

\* C5: an instance d built without healing that holds a valid date round-trips:
\* the instance e built from d.isoString has e.isEqual(d).
C5_RoundTrip ==
  (last.op = "roundTrip" /\ ~isHealed /\ isValidDate(this))
    => (~other.threw /\ isEqual(otherDate, this))

TimesOfDay == {0, MsPerDay - 1}
\* the instant at time of day ms of the local calendar day of t
AtTimeOfDay(t, ms) == UTCTime(MkTime(LocalTime(t, tzOffset).day, ms), tzOffset)

C7_IsoStringFormat ==
  (phase = "ready" /\ ~this.nan) => IsDateOnlyForm(isoString(this))

\* C8: arithmetic never changes a Date object in place: every Date the caller
\* holds (passed to the constructor, read through date, returned by an earlier
\* call) denotes the same instant after a call as before it.
C8_NoDateMutatedInPlace ==
  [][\A r \in handles : heap'[r] = heap[r]]_vars

\* C9: on every host, after an arithmetic call on an instance holding a valid
\* date, dateString is the canonical ISO string of the instance's year, month
\* and day: isValidDateString() returns true.
C9_DateStringValidAfterArithmetic ==
  (phase = "ready" /\ nOps >= 1 /\ isValidDate(this))
    => isValidDateString(this, dateString)

\* C10: an invalid timestamp is detected and absorbing: while the timestamp is
\* invalid isValidDate() returns false, and every arithmetic call on it returns
\* normally and leaves the timestamp invalid.
C10_InvalidIsAbsorbing ==
  /\ [](phase = "ready" /\ this.nan => ~isValidDate(this))
  /\ [][(phase = "ready" /\ this.nan) => (phase' = "ready" /\ thisNext.nan)]_vars

\* an adopted invalid Date, still invalid after two arithmetic calls
C10_Witness ==
  /\ phase = "ready" /\ nOps >= 2
  /\ \A r \in 1..Len(heap) : heap[r].nan
  /\ last.op = "subtractDay"
  /\ ~isValidDate(this)
====
